---- MODULE Spec2Model ----
(***************************************************************************)
(* State-machine model of four thin adapters over a native cryptography    *)
(* library: the X.509 certificate store builder (x509/store.rs), the DSA   *)
(* key wrapper (dsa.rs), the CMS content-info wrapper (cms.rs) and the     *)
(* socket-readiness shim used by the SSL tests (ssl/tests/select.rs).      *)
(*                                                                         *)
(* Native handles are numbered cells of a per-type heap.  Every foreign    *)
(* call is an input of the action that makes it: the action draws the      *)
(* call's outcome (null or a fresh handle, a return code) with \E and      *)
(* then does what the wrapper's code does with it.                         *)
(***************************************************************************)
EXTENDS Integers, Sequences, FiniteSets, TLC

\* ------------------------------------------------------------------ bounds
MaxStores == 2      \* X509_STORE handles the native allocator can hand out
MaxCerts  == 1      \* certificates counted per store
MaxDsa    == 2      \* DSA handles the native allocator can hand out
MaxViews  == 1      \* BigNumRef borrows alive at the same time
MaxCms    == 1      \* CMS_ContentInfo handles the native allocator can hand out
MaxPlain  == 1      \* length of the longest plaintext / DER buffer
FdSetSize == 3      \* capacity of fd_array (winsock2 FD_SETSIZE, scaled down)
MaxReady  == 2      \* largest descriptor count the OS polling call reports

VARIABLES
    x509Heap,       \* native X509_STORE objects, by handle
    x509Owners,     \* live Rust wrappers owning an X509_STORE pointer
    dsaHeap,        \* native DSA objects, by handle
    dsaOwners,      \* handles held by live Dsa values
    views,          \* live &BigNumRef borrows handed out by p(), q(), g()
    cmsHeap,        \* native CMS_ContentInfo objects, by handle
    cmsOwners,      \* handles held by live CmsContentInfo values
    bio,            \* the temporary memory BIO of the last decrypt
    plain,          \* the Vec<u8> the last decrypt returned
    fdSet,          \* a winsock2 fd_set: fd_count and fd_array
    sel,            \* the last select call: timeout, timeval, rc, result
    lastCall        \* the last wrapper operation: foreign failure and result

vars == <<x509Heap, x509Owners, dsaHeap, dsaOwners, views, cmsHeap, cmsOwners,
          bio, plain, fdSet, sel, lastCall>>

storeVars  == <<x509Heap, x509Owners>>
dsaVars    == <<dsaHeap, dsaOwners, views>>
cmsVars    == <<cmsHeap, cmsOwners, bio, plain>>
selectVars == <<fdSet, sel>>

\* ------------------------------------------------- the error channel (lib.rs)
\* cvt_p: a null pointer from the foreign call becomes Err.  A pointer is a
\* handle number, 0 is null.
cvt_p(ptr) == IF ptr = 0 THEN "Err" ELSE "Ok"

\* cvt: a failing return code from the foreign call becomes Err.
cvt(rc) == IF rc <= 0 THEN "Err" ELSE "Ok"

\* What an operation reports: op, whether any foreign call it made reported
\* failure, the result's kind, the handle (or input) it acted on, and the
\* integer the result carries.
CallV(op, failed, result, arg, val) ==
    [op |-> op, failed |-> failed, result |-> result, arg |-> arg, val |-> val]

Call(op, failed, result, arg) == CallV(op, failed, result, arg, 0)

\* A fresh handle of a heap: the lowest cell never allocated, as a malloc that
\* never reuses an address.
Fresh(heap) == CHOOSE h \in DOMAIN heap :
                  /\ heap[h].st = "unalloc"
                  /\ \A k \in DOMAIN heap : heap[k].st = "unalloc" => h <= k

HasFresh(heap) == \E h \in DOMAIN heap : heap[h].st = "unalloc"

\* ------------------------------------------------------------ x509/store.rs
\* X509_STORE_free, the drop of both X509StoreBuilder and X509Store.  A second
\* free of the same handle is counted, not hidden.
X509_STORE_free(heap, h) ==
    [heap EXCEPT ![h].st = "freed", ![h].frees = @ + 1]

\* X509StoreBuilder::new
X509StoreBuilder_new ==
    /\ HasFresh(x509Heap)
    /\ \E ok \in BOOLEAN :
         LET ptr == IF ok THEN Fresh(x509Heap) ELSE 0
             res == cvt_p(ptr)
         IN  /\ x509Heap' = IF ok THEN [x509Heap EXCEPT ![ptr].st = "live"]
                                  ELSE x509Heap
             /\ x509Owners' = IF res = "Ok"
                                THEN x509Owners \cup
                                       {[kind |-> "X509StoreBuilder", ptr |-> ptr]}
                                ELSE x509Owners
             /\ lastCall' = Call("X509StoreBuilder::new", ~ok, res, ptr)
    /\ UNCHANGED <<dsaVars, cmsVars, selectVars>>

\* The handles X509_STORE_free is called on when build(self) returns: none,
\* because mem::forget(self) suppresses the builder's destructor.
BuildDropsSelf(h) == {h}
BuildFrees(h) == {}

\* X509StoreBuilder::build
build ==
    \E b \in x509Owners :
      /\ b.kind = "X509StoreBuilder"
      /\ x509Owners' = (x509Owners \ {b}) \cup {[kind |-> "X509Store", ptr |-> b.ptr]}
      /\ x509Heap' = IF b.ptr \in BuildFrees(b.ptr)
                       THEN X509_STORE_free(x509Heap, b.ptr)
                       ELSE x509Heap
      /\ lastCall' = Call("X509StoreBuilder::build", FALSE, "Ok", b.ptr)
      /\ UNCHANGED <<dsaVars, cmsVars, selectVars>>

\* X509StoreBuilderRef::add_cert
add_cert ==
    \E b \in x509Owners, rc \in {0, 1} :
      /\ b.kind = "X509StoreBuilder"
      /\ x509Heap[b.ptr].certs < MaxCerts
      /\ x509Heap' = IF rc = 1 THEN [x509Heap EXCEPT ![b.ptr].certs = @ + 1]
                               ELSE x509Heap
      /\ lastCall' = Call("X509StoreBuilderRef::add_cert", rc <= 0, cvt(rc), b.ptr)
      /\ UNCHANGED <<x509Owners, dsaVars, cmsVars, selectVars>>

\* X509StoreBuilderRef::set_default_paths
set_default_paths ==
    \E b \in x509Owners, rc \in {0, 1} :
      /\ b.kind = "X509StoreBuilder"
      /\ x509Heap' = IF rc = 1 THEN [x509Heap EXCEPT ![b.ptr].paths = TRUE]
                               ELSE x509Heap
      /\ lastCall' = Call("X509StoreBuilderRef::set_default_paths", rc <= 0,
                          cvt(rc), b.ptr)
      /\ UNCHANGED <<x509Owners, dsaVars, cmsVars, selectVars>>

\* Drop of an X509StoreBuilder (foreign_type!, fn drop = X509_STORE_free)
drop_X509StoreBuilder ==
    \E b \in x509Owners :
      /\ b.kind = "X509StoreBuilder"
      /\ x509Owners' = x509Owners \ {b}
      /\ x509Heap' = X509_STORE_free(x509Heap, b.ptr)
      /\ lastCall' = Call("drop X509StoreBuilder", FALSE, "Ok", b.ptr)
      /\ UNCHANGED <<dsaVars, cmsVars, selectVars>>

\* Drop of an X509Store (foreign_type!, fn drop = X509_STORE_free)
drop_X509Store ==
    \E s \in x509Owners :
      /\ s.kind = "X509Store"
      /\ x509Owners' = x509Owners \ {s}
      /\ x509Heap' = X509_STORE_free(x509Heap, s.ptr)
      /\ lastCall' = Call("drop X509Store", FALSE, "Ok", s.ptr)
      /\ UNCHANGED <<dsaVars, cmsVars, selectVars>>

NextStore ==
    \/ X509StoreBuilder_new
    \/ build
    \/ add_cert
    \/ set_default_paths
    \/ drop_X509StoreBuilder
    \/ drop_X509Store

\* -------------------------------------------------------------------- dsa.rs
\* Maximum signature sizes the native DSA_size reports (160- and 256-bit q).
SigSizes == {48, 72}

\* DSA_free, the drop of Dsa: the object and the numbers it owns are gone.
\* calls and frees are history, kept for the statement of properties.
DSA_free(heap, h) ==
    [heap EXCEPT ![h] = [st |-> "freed", p |-> FALSE, q |-> FALSE, g |-> FALSE,
                         pub |-> FALSE, priv |-> FALSE, sig |-> 0,
                         frees |-> @.frees + 1, calls |-> @.calls]]

\* compat::pqg(d)[0..2] tested for null by DsaRef::p, q, g
p(obj) == IF obj.p THEN "Some" ELSE "None"
q(obj) == IF obj.q THEN "Some" ELSE "None"
g(obj) == IF obj.g THEN "Some" ELSE "None"

\* DsaRef::has_public_key, DsaRef::has_private_key
has_public_key(obj)  == obj.pub
has_private_key(obj) == obj.priv

\* The native effect of the two generation calls on a DSA object: the
\* parameter call fills p, q, g; the key call needs them and fills the keys.
\* Each returns 1 on success and 0 on failure.  ok is the call's own luck
\* (allocation, randomness).
Native(obj, name, ok, sig) ==
    LET o == [obj EXCEPT !.calls = Append(@, name)]
    IN  IF name = "DSA_generate_parameters_ex"
          THEN IF ok
                 THEN [obj |-> [o EXCEPT !.p = TRUE, !.q = TRUE, !.g = TRUE,
                                         !.sig = sig],
                       rc |-> 1]
                 ELSE [obj |-> o, rc |-> 0]
          ELSE IF ok /\ o.p /\ o.q /\ o.g
                 THEN [obj |-> [o EXCEPT !.pub = TRUE, !.priv = TRUE], rc |-> 1]
                 ELSE [obj |-> o, rc |-> 0]

\* The foreign calls Dsa::generate makes on the new handle, in program order.
GenerateStepsKeyFirst == <<"DSA_generate_key", "DSA_generate_parameters_ex">>
GenerateSteps == <<"DSA_generate_parameters_ex", "DSA_generate_key">>

\* The handles DSA_free is called on when a `?` in Dsa::generate returns early:
\* the handle is wrapped in a Dsa as soon as cvt_p accepts it, so the early
\* return drops that Dsa.
GenerateErrLeaks(h) == {}
GenerateErrDrops(h) == {h}

\* The heap after Dsa::generate left through a `?` with object o at handle h.
GenerateErr(h, o) ==
    LET heap == [dsaHeap EXCEPT ![h] = o]
    IN  IF h \in GenerateErrDrops(h) THEN DSA_free(heap, h) ELSE heap

\* Dsa::generate
generate ==
    /\ HasFresh(dsaHeap)
    /\ \E okNew \in BOOLEAN, ok1 \in BOOLEAN, ok2 \in BOOLEAN, sig \in SigSizes :
         LET ptr == IF okNew THEN Fresh(dsaHeap) ELSE 0
         IN  IF cvt_p(ptr) = "Err"
               THEN /\ lastCall' = Call("Dsa::generate", TRUE, "Err", 0)
                    /\ UNCHANGED dsaVars
               ELSE
                 LET o0 == [dsaHeap[ptr] EXCEPT !.st = "live",
                                                 !.calls = <<"DSA_new">>]
                     s1 == Native(o0, GenerateSteps[1], ok1, sig)
                     s2 == Native(s1.obj, GenerateSteps[2], ok2, sig)
                 IN  IF cvt(s1.rc) = "Err"
                       THEN /\ dsaHeap' = GenerateErr(ptr, s1.obj)
                            /\ lastCall' = Call("Dsa::generate", TRUE, "Err", ptr)
                            /\ UNCHANGED <<dsaOwners, views>>
                       ELSE IF cvt(s2.rc) = "Err"
                         THEN /\ dsaHeap' = GenerateErr(ptr, s2.obj)
                              /\ lastCall' = Call("Dsa::generate", TRUE, "Err", ptr)
                              /\ UNCHANGED <<dsaOwners, views>>
                         ELSE /\ dsaHeap' = [dsaHeap EXCEPT ![ptr] = s2.obj]
                              /\ dsaOwners' = dsaOwners \cup {ptr}
                              /\ lastCall' = Call("Dsa::generate", FALSE, "Ok", ptr)
                              /\ UNCHANGED views
    /\ UNCHANGED <<storeVars, cmsVars, selectVars>>

\* Dsa::private_key_from_pem_cb: MemBioSlice::new, then
\* PEM_read_bio_DSAPrivateKey, whose result carries p, q, g and both keys.
private_key_from_pem_cb ==
    /\ HasFresh(dsaHeap)
    /\ \E okBio \in BOOLEAN, okRead \in BOOLEAN, sig \in SigSizes :
         LET ptr == IF okBio /\ okRead THEN Fresh(dsaHeap) ELSE 0
         IN  IF ~okBio \/ cvt_p(ptr) = "Err"
               THEN /\ lastCall' = Call("Dsa::private_key_from_pem_cb", TRUE, "Err", 0)
                    /\ UNCHANGED dsaVars
               ELSE /\ dsaHeap' = [dsaHeap EXCEPT ![ptr] =
                          [@ EXCEPT !.st = "live", !.p = TRUE, !.q = TRUE, !.g = TRUE,
                                    !.pub = TRUE, !.priv = TRUE, !.sig = sig,
                                    !.calls = <<"PEM_read_bio_DSAPrivateKey">>]]
                    /\ dsaOwners' = dsaOwners \cup {ptr}
                    /\ lastCall' = Call("Dsa::private_key_from_pem_cb", FALSE, "Ok", ptr)
                    /\ UNCHANGED views
    /\ UNCHANGED <<storeVars, cmsVars, selectVars>>

\* Dsa::public_key_from_pem (public_key_from_pem!(Dsa, PEM_read_bio_DSA_PUBKEY)):
\* the parsed SubjectPublicKeyInfo carries the public key, and the domain
\* parameters p, q, g only when the encoding includes them.
public_key_from_pem ==
    /\ HasFresh(dsaHeap)
    /\ \E okBio \in BOOLEAN, okRead \in BOOLEAN, params \in BOOLEAN, sig \in SigSizes :
         LET ptr == IF okBio /\ okRead THEN Fresh(dsaHeap) ELSE 0
         IN  IF ~okBio \/ cvt_p(ptr) = "Err"
               THEN /\ lastCall' = Call("Dsa::public_key_from_pem", TRUE, "Err", 0)
                    /\ UNCHANGED dsaVars
               ELSE /\ dsaHeap' = [dsaHeap EXCEPT ![ptr] =
                          [@ EXCEPT !.st = "live", !.p = params, !.q = params,
                                    !.g = params, !.pub = TRUE,
                                    !.sig = IF params THEN sig ELSE 0,
                                    !.calls = <<"PEM_read_bio_DSA_PUBKEY">>]]
                    /\ dsaOwners' = dsaOwners \cup {ptr}
                    /\ lastCall' = Call("Dsa::public_key_from_pem", FALSE, "Ok", ptr)
                    /\ UNCHANGED views
    /\ UNCHANGED <<storeVars, cmsVars, selectVars>>

\* The native DSA_size: the signature size fixed by the object's q.
DSA_size(obj) == obj.sig

\* DsaRef::size
sizeByKeys(obj) ==
    IF has_public_key(obj) \/ has_private_key(obj)
      THEN [kind |-> "Some", val |-> DSA_size(obj)]
      ELSE [kind |-> "None", val |-> 0]
DsaRef_size(obj) ==
    IF q(obj) = "Some"
      THEN [kind |-> "Some", val |-> DSA_size(obj)]
      ELSE [kind |-> "None", val |-> 0]

\* A call of DsaRef::size on a live Dsa
call_size ==
    \E h \in dsaOwners :
      /\ lastCall' = CallV("DsaRef::size", FALSE, DsaRef_size(dsaHeap[h]).kind, h,
                           DsaRef_size(dsaHeap[h]).val)
      /\ UNCHANGED <<storeVars, dsaVars, cmsVars, selectVars>>

\* The lifetime of the &BigNumRef that p(), q(), g() return: that of &self
\* (the elided lifetime of `fn p(&self) -> Option<&BigNumRef>`).
PqgLifetime == "self"

\* DsaRef::p, DsaRef::q, DsaRef::g: None for a null field, else a borrowed view
call_pqg ==
    \E h \in dsaOwners, f \in {"p", "q", "g"} :
      LET r == IF f = "p" THEN p(dsaHeap[h])
               ELSE IF f = "q" THEN q(dsaHeap[h]) ELSE g(dsaHeap[h])
      IN  /\ Cardinality(views) < MaxViews
          /\ views' = IF r = "Some"
                        THEN views \cup {[owner |-> h, field |-> f,
                                          lifetime |-> PqgLifetime]}
                        ELSE views
          /\ lastCall' = Call("DsaRef::" \o f, FALSE, r, h)
          /\ UNCHANGED <<storeVars, dsaHeap, dsaOwners, cmsVars, selectVars>>

\* A read through a BigNumRef view.  Reading the field of a freed DSA is a
\* use after free.
read_view ==
    \E v \in views :
      /\ lastCall' = Call("BigNumRef read", FALSE,
                          IF dsaHeap[v.owner].st = "live" THEN "Ok" ELSE "UseAfterFree",
                          v.owner)
      /\ UNCHANGED <<storeVars, dsaVars, cmsVars, selectVars>>

\* The end of a view's scope
end_view ==
    \E v \in views :
      /\ views' = views \ {v}
      /\ lastCall' = Call("BigNumRef end", FALSE, "Ok", v.owner)
      /\ UNCHANGED <<storeVars, dsaHeap, dsaOwners, cmsVars, selectVars>>

\* Drop of a Dsa (fn drop = DSA_free).  A value cannot be dropped while a
\* borrow whose lifetime is bound to it is alive.
drop_Dsa ==
    \E h \in dsaOwners :
      /\ \A v \in views : v.owner = h => v.lifetime # "self"
      /\ dsaOwners' = dsaOwners \ {h}
      /\ dsaHeap' = DSA_free(dsaHeap, h)
      /\ lastCall' = Call("drop Dsa", FALSE, "Ok", h)
      /\ UNCHANGED <<storeVars, views, cmsVars, selectVars>>

NextDsa ==
    \/ generate
    \/ private_key_from_pem_cb
    \/ public_key_from_pem
    \/ call_size
    \/ call_pqg
    \/ read_view
    \/ end_view
    \/ drop_Dsa

\* -------------------------------------------------------------------- cms.rs
Bytes == {0, 1}

\* The byte buffers the native library can produce, up to MaxPlain bytes.
Buffers == UNION {[1..n -> Bytes] : n \in 0..MaxPlain}

\* CMS_ContentInfo_free, the drop of CmsContentInfo.
CMS_ContentInfo_free(heap, h) ==
    [heap EXCEPT ![h].st = "freed", ![h].frees = @ + 1]

\* CmsContentInfo::smime_read_cms: MemBioSlice::new(smime)?, then
\* cvt_p(SMIME_read_CMS(..))?, then from_ptr.
smime_read_cms ==
    /\ HasFresh(cmsHeap)
    /\ \E okBio \in BOOLEAN, okRead \in BOOLEAN :
         LET ptr == IF okBio /\ okRead THEN Fresh(cmsHeap) ELSE 0
         IN  IF ~okBio \/ cvt_p(ptr) = "Err"
               THEN /\ lastCall' = Call("CmsContentInfo::smime_read_cms", TRUE, "Err", 0)
                    /\ UNCHANGED <<cmsHeap, cmsOwners>>
               ELSE /\ cmsHeap' = [cmsHeap EXCEPT ![ptr].st = "live"]
                    /\ cmsOwners' = cmsOwners \cup {ptr}
                    /\ lastCall' = Call("CmsContentInfo::smime_read_cms", FALSE, "Ok", ptr)
    /\ UNCHANGED <<storeVars, dsaVars, bio, plain, selectVars>>

\* CmsContentInfo::sign: MemBioSlice::new(data)?, then Stack::new()? (the
\* argument of unwrap_or is evaluated whether or not certs is given), then
\* cvt_p(CMS_sign(..))?, then from_ptr.
sign ==
    /\ HasFresh(cmsHeap)
    /\ \E okBio \in BOOLEAN, okStack \in BOOLEAN, okSign \in BOOLEAN :
         LET ptr == IF okBio /\ okStack /\ okSign THEN Fresh(cmsHeap) ELSE 0
         IN  IF ~okBio \/ ~okStack \/ cvt_p(ptr) = "Err"
               THEN /\ lastCall' = Call("CmsContentInfo::sign", TRUE, "Err", 0)
                    /\ UNCHANGED <<cmsHeap, cmsOwners>>
               ELSE /\ cmsHeap' = [cmsHeap EXCEPT ![ptr].st = "live"]
                    /\ cmsOwners' = cmsOwners \cup {ptr}
                    /\ lastCall' = Call("CmsContentInfo::sign", FALSE, "Ok", ptr)
    /\ UNCHANGED <<storeVars, dsaVars, bio, plain, selectVars>>

\* The result of CmsContentInfo::to_der from the return values of its two
\* i2d_CMS_ContentInfo calls: size sizes the buffer (a negative size cast to
\* usize overflows the capacity of vec! and panics), the second return value
\* is not looked at.
to_der_result(size, rc2) ==
    IF size < 0 THEN [kind |-> "Panic", len |-> 0]
                ELSE [kind |-> "Ok", len |-> size]

\* CmsContentInfo::to_der
to_der ==
    \E h \in cmsOwners, size \in -1..MaxPlain, ok2 \in BOOLEAN :
      LET rc2 == IF size < 0 \/ ~ok2 THEN -1 ELSE size
          r   == to_der_result(size, rc2)
      IN  /\ lastCall' = CallV("CmsContentInfo::to_der", size < 0 \/ rc2 < 0,
                               r.kind, h, r.len)
          /\ UNCHANGED <<storeVars, dsaVars, cmsVars, selectVars>>

\* out.get_buf().to_owned(): the bytes of the BIO copied into a Vec of its own
get_buf_borrowed(b) == [st |-> "some", bytes |-> b.buf, alias |-> TRUE]
get_buf_to_owned(b) == [st |-> "some", bytes |-> b.buf, alias |-> FALSE]

\* CmsContentInfoRef::decrypt: MemBio::new()?, cvt(CMS_decrypt(..))?, the copy
\* of the output, and the drop of the BIO at the end of the scope.
decrypt ==
    \E h \in cmsOwners, okBio \in BOOLEAN, rc \in {0, 1}, data \in Buffers :
      /\ IF ~okBio
           THEN /\ lastCall' = Call("CmsContentInfoRef::decrypt", TRUE, "Err", h)
                /\ UNCHANGED <<bio, plain>>
           ELSE LET out == [st |-> "live", buf |-> IF rc = 1 THEN data ELSE <<>>]
                IN  /\ bio' = [st |-> "freed", buf |-> <<>>]
                    /\ IF cvt(rc) = "Err"
                         THEN /\ lastCall' = Call("CmsContentInfoRef::decrypt", TRUE,
                                                  "Err", h)
                              /\ UNCHANGED plain
                         ELSE /\ plain' = get_buf_to_owned(out)
                              /\ lastCall' = CallV("CmsContentInfoRef::decrypt", FALSE,
                                                   "Ok", h, Len(out.buf))
      /\ UNCHANGED <<storeVars, dsaVars, cmsHeap, cmsOwners, selectVars>>

\* A read of the plaintext decrypt returned.  Bytes that alias the buffer of a
\* freed BIO are a use after free.
read_plain ==
    /\ plain.st = "some"
    /\ lastCall' = CallV("Vec read", FALSE,
                         IF plain.alias /\ bio.st # "live" THEN "UseAfterFree" ELSE "Ok",
                         0, Len(plain.bytes))
    /\ UNCHANGED <<storeVars, dsaVars, cmsVars, selectVars>>

\* Drop of a CmsContentInfo (fn drop = CMS_ContentInfo_free)
drop_CmsContentInfo ==
    \E h \in cmsOwners :
      /\ cmsOwners' = cmsOwners \ {h}
      /\ cmsHeap' = CMS_ContentInfo_free(cmsHeap, h)
      /\ lastCall' = Call("drop CmsContentInfo", FALSE, "Ok", h)
      /\ UNCHANGED <<storeVars, dsaVars, bio, plain, selectVars>>


\* ------------------------------------------------------ ssl/tests/select.rs
\* A u32 is the pair <<hi, lo>> of its 16-bit halves, value hi * 65536 + lo:
\* the model checker's integers stop short of 2^32.
Sockets == {1, 2}

\* timeout_ms values: around each multiple of 1000, around the largest value
\* whose microseconds fit 32 bits (4294967), around 2^31 and at 2^32 - 1.
Timeouts ==
    { <<0, 0>>, <<0, 1>>, <<0, 999>>, <<0, 1000>>, <<0, 1001>>, <<0, 65535>>,
      <<1, 0>>, <<32, 50331>>, <<32, 50332>>, <<65, 35127>>, <<65, 35128>>,
      <<32767, 65535>>, <<32768, 0>>, <<65535, 65535>> }

\* errno values the OS leaves behind a failed polling call (EINTR, EBADF)
Errnos == {4, 9}

\* timeout_ms / 1000 and timeout_ms % 1000, by long division on the halves.
DivMod1000(x) ==
    LET q1 == x[1] \div 1000
        r1 == x[1] % 1000
        t  == r1 * 65536 + x[2]
    IN  [quot |-> q1 * 65536 + (t \div 1000), rem |-> t % 1000]

\* n * k for a u32 n = <<hi, lo>> and a small k, as the three 16-bit limbs
\* <<carry out of 32 bits, hi, lo>> of the exact product.
MulLimbs(x, k) ==
    LET l0 == x[2] * k
        l1 == x[1] * k + (l0 \div 65536)
    IN  <<l1 \div 65536, l1 % 65536, l0 % 65536>>

\* tv_sec: (timeout_ms / 1000) as time_t (unix) or c_long (windows)
tv_sec(ms) == DivMod1000(ms).quot

\* tv_usec: (timeout_ms % 1000 * 1000) as suseconds_t or c_long, with whether
\* the u32 multiplication overflowed.
tv_usec_mul_first(ms) ==
    LET prod == MulLimbs(ms, 1000)
        wrap == <<prod[2], prod[3]>>
        d    == DivMod1000(wrap)
    IN  [val |-> (d.quot % 1000) * 1000 + d.rem, overflow |-> prod[1] # 0]
tv_usec(ms) ==
    LET r    == DivMod1000(ms).rem
        prod == MulLimbs(<<0, r>>, 1000)
    IN  [val |-> prod[2] * 65536 + prod[3], overflow |-> prod[1] # 0]

\* The result of select from the return value of the OS polling call and the
\* errno it left: Err(last_os_error()) if rc < 0, else Ok(rc != 0).
select_unchecked(rc, errno) == [kind |-> "Ok", ready |-> rc # 0, err |-> 0]
select_result(rc, errno) ==
    IF rc < 0 THEN [kind |-> "Err", ready |-> FALSE, err |-> errno]
              ELSE [kind |-> "Ok", ready |-> rc # 0, err |-> 0]

\* imp::select (unix: libc::select, windows: ws2_32::select; the bodies agree
\* but for the first argument of the OS call)
select ==
    \E ms \in Timeouts, rc \in -1..MaxReady :
     \E errno \in IF rc < 0 THEN Errnos ELSE {0} :
      /\ sel' = [ms |-> ms, tv_sec |-> tv_sec(ms),
                 tv_usec |-> tv_usec(ms).val, overflow |-> tv_usec(ms).overflow,
                 rc |-> rc, errno |-> errno,
                 oscalls |-> 1, res |-> select_result(rc, errno)]
      /\ lastCall' = CallV("select", rc < 0, select_result(rc, errno).kind, 0, rc)
      /\ UNCHANGED <<storeVars, dsaVars, cmsVars, fdSet>>

\* The bounds check of fd_array[fd_count as usize]: indexing past the end of
\* the array panics.
IndexUnchecked(set) == TRUE
IndexInBounds(set) == set.fd_count < FdSetSize

\* imp::fd_set (windows).  calls is the history of the sockets passed in, kept
\* for the statement of properties only.
fd_set ==
    \E sock \in Sockets :
      /\ Len(fdSet.calls) <= FdSetSize
      /\ IF IndexInBounds(fdSet)
           THEN /\ fdSet' = [fd_count |-> fdSet.fd_count + 1,
                             fd_array |-> [i \in DOMAIN fdSet.fd_array |->
                                             IF i = fdSet.fd_count THEN sock
                                             ELSE fdSet.fd_array[i]],
                             calls |-> Append(fdSet.calls, sock)]
                /\ lastCall' = CallV("fd_set", FALSE, "Ok", sock, fdSet.fd_count)
           ELSE /\ fdSet' = [fdSet EXCEPT !.calls = Append(@, sock)]
                /\ lastCall' = CallV("fd_set", FALSE, "Panic", sock, fdSet.fd_count)
      /\ UNCHANGED <<storeVars, dsaVars, cmsVars, sel>>

NextSelect ==
    \/ select
    \/ fd_set

\* ----------------------------------------------------------- specifications
Init ==
    /\ x509Heap = [h \in 1..MaxStores |->
                     [st |-> "unalloc", certs |-> 0, paths |-> FALSE, frees |-> 0]]
    /\ x509Owners = {}
    /\ dsaHeap = [h \in 1..MaxDsa |->
                    [st |-> "unalloc", p |-> FALSE, q |-> FALSE, g |-> FALSE,
                     pub |-> FALSE, priv |-> FALSE, sig |-> 0, frees |-> 0,
                     calls |-> <<>>]]
    /\ dsaOwners = {}
    /\ views = {}
    /\ cmsHeap = [h \in 1..MaxCms |-> [st |-> "unalloc", frees |-> 0]]
    /\ cmsOwners = {}
    /\ bio = [st |-> "none", buf |-> <<>>]
    /\ plain = [st |-> "none", bytes |-> <<>>, alias |-> FALSE]
    /\ fdSet = [fd_count |-> 0, fd_array |-> [i \in 0..(FdSetSize - 1) |-> 0],
                calls |-> <<>>]
    /\ sel = [ms |-> <<0, 0>>, tv_sec |-> 0, tv_usec |-> 0,
              overflow |-> FALSE, rc |-> 0, errno |-> 0, oscalls |-> 0,
              res |-> [kind |-> "none", ready |-> FALSE, err |-> 0]]
    /\ lastCall = CallV("none", FALSE, "none", 0, 0)

SpecStore  == Init /\ [][NextStore]_vars
SpecDsa    == Init /\ [][NextDsa]_vars
SpecSelect == Init /\ [][NextSelect]_vars

\* The operations that create, use and end a borrowed view, of both wrappers.
NextBorrow ==
    \/ generate
    \/ call_pqg
    \/ read_view
    \/ end_view
    \/ drop_Dsa
    \/ smime_read_cms
    \/ decrypt
    \/ read_plain
SpecBorrow == Init /\ [][NextBorrow]_vars

\* The wrapper operations that make a foreign call and report through Result,
\* and the drop that lets a CmsContentInfo end.
NextFfi ==
    \/ X509StoreBuilder_new
    \/ add_cert
    \/ set_default_paths
    \/ generate
    \/ smime_read_cms
    \/ sign
    \/ to_der
    \/ decrypt
    \/ drop_CmsContentInfo
SpecFfi == Init /\ [][NextFfi]_vars

\* ------------------------------------------------------------------- claims

\* C1: every X509_STORE handle that X509StoreBuilder::new allocated has exactly
\* one owning wrapper while it is alive (the builder or, after build, the
\* store), none once it is released, and X509_STORE_free has run on it exactly
\* once when released and not at all before: build hands the handle over
\* without freeing it and without leaving a second owner.
C1_StoreSingleOwner ==
    \A h \in DOMAIN x509Heap :
      LET own == {o \in x509Owners : o.ptr = h}
      IN  /\ x509Heap[h].st = "unalloc" => own = {} /\ x509Heap[h].frees = 0
          /\ x509Heap[h].st = "live" => Cardinality(own) = 1 /\ x509Heap[h].frees = 0
          /\ x509Heap[h].st = "freed" => own = {} /\ x509Heap[h].frees = 1

\* new -> add_cert -> build -> drop of the store has run on a handle
C1_Witness ==
    /\ lastCall.op = "drop X509Store"
    /\ x509Heap[lastCall.arg].st = "freed"
    /\ x509Heap[lastCall.arg].frees = 1
    /\ x509Heap[lastCall.arg].certs > 0

\* C2: whenever a foreign call made by a wrapper operation reported failure,
\* the operation returned Err.
C2_ErrOnForeignFailure ==
    lastCall.failed => lastCall.result = "Err"

\* C3: a Dsa::generate that fails after DSA_new succeeded has released the
\* handle DSA_new allocated, by exactly one DSA_free, and returned no Dsa; a
\* Dsa::generate whose DSA_new failed has freed nothing.
C3_GenerateNoLeak ==
    [][ lastCall'.op = "Dsa::generate" /\ lastCall'.result = "Err" =>
          /\ dsaOwners' = dsaOwners
          /\ IF lastCall'.arg = 0
               THEN dsaHeap' = dsaHeap
               ELSE /\ dsaHeap[lastCall'.arg].st = "unalloc"
                    /\ dsaHeap'[lastCall'.arg].st = "freed"
                    /\ dsaHeap'[lastCall'.arg].frees = 1
                    /\ \A h \in DOMAIN dsaHeap :
                         h # lastCall'.arg => dsaHeap'[h] = dsaHeap[h]
      ]_vars

\* generate failed at DSA_generate_key, after DSA_new and the parameters
C3_Witness ==
    /\ lastCall.op = "Dsa::generate"
    /\ lastCall.result = "Err"
    /\ lastCall.arg # 0
    /\ dsaHeap[lastCall.arg].st = "freed"
    /\ Len(dsaHeap[lastCall.arg].calls) = 3

\* C4: every BigNumRef view handed out by p(), q(), g() belongs to a Dsa that
\* is alive, the plaintext decrypt returned does not alias the buffer of its
\* memory BIO, which is freed when decrypt returns, and no read of either
\* touched freed memory.
C4_NoDanglingView ==
    /\ \A v \in views : v.owner \in dsaOwners /\ dsaHeap[v.owner].st = "live"
    /\ plain.st = "some" /\ plain.alias => bio.st = "live"
    /\ lastCall.result # "UseAfterFree"

\* the plaintext of a decrypt is read after its BIO was freed, while a view of
\* a live Dsa is held
C4_Witness ==
    /\ lastCall.op = "Vec read"
    /\ lastCall.val > 0
    /\ bio.st = "freed"
    /\ views # {}

\* C5: on every DSA handle the foreign calls of Dsa::generate come in the
\* order DSA_new, DSA_generate_parameters_ex, DSA_generate_key, and when
\* generate returns Ok(dsa), p(), q(), g() are Some and has_public_key() and
\* has_private_key() are true.
C5_GenerateOrder ==
    /\ \A h \in DOMAIN dsaHeap :
         LET c == dsaHeap[h].calls
         IN  c # <<>> /\ c[1] = "DSA_new" =>
               \A i \in 1..Len(c) :
                 /\ i = 2 => c[i] = "DSA_generate_parameters_ex"
                 /\ i = 3 => c[i] = "DSA_generate_key"
                 /\ i <= 3
    /\ lastCall.op = "Dsa::generate" /\ lastCall.result = "Ok" =>
         LET o == dsaHeap[lastCall.arg]
         IN  /\ p(o) = "Some" /\ q(o) = "Some" /\ g(o) = "Some"
             /\ has_public_key(o) /\ has_private_key(o)

\* generate returned Ok
C5_Witness ==
    /\ lastCall.op = "Dsa::generate"
    /\ lastCall.result = "Ok"
    /\ dsaHeap[lastCall.arg].calls =
         <<"DSA_new", "DSA_generate_parameters_ex", "DSA_generate_key">>

C7_SelectResult ==
    sel.res.kind # "none" =>
      /\ (sel.res.kind = "Ok" /\ sel.res.ready) <=> sel.rc > 0
      /\ (sel.res.kind = "Ok" /\ ~sel.res.ready) <=> sel.rc = 0
      /\ sel.res.kind = "Err" <=> sel.rc < 0
      /\ sel.res.kind = "Err" => sel.res.err = sel.errno /\ sel.errno \in Errnos
      /\ sel.oscalls = 1

\* the polling call failed with EINTR
C7_Witness ==
    /\ sel.res.kind = "Err"
    /\ sel.rc < 0
    /\ sel.res.err = 4

\* tv_sec * 1000 + r as <<carry, hi, lo>>, for the statement of C9
SecondsToMillis(sec, r) ==
    LET prod == MulLimbs(<<sec \div 65536, sec % 65536>>, 1000)
        l0   == prod[3] + r
        l1   == prod[2] + (l0 \div 65536)
    IN  <<prod[1] + (l1 \div 65536), l1 % 65536, l0 % 65536>>

\* C9: the timeval select builds from timeout_ms has 0 <= tv_usec < 1000000,
\* tv_usec a whole number of milliseconds, and tv_sec * 1000 + tv_usec / 1000 =
\* timeout_ms (that is, tv_sec * 1000000 + tv_usec = timeout_ms * 1000, which
\* makes tv_sec the quotient and tv_usec / 1000 the remainder of timeout_ms by
\* 1000), and the u32 multiplication did not overflow.
C9_TimevalExact ==
    sel.res.kind # "none" =>
      /\ 0 <= sel.tv_usec /\ sel.tv_usec < 1000000
      /\ sel.tv_usec % 1000 = 0
      /\ SecondsToMillis(sel.tv_sec, sel.tv_usec \div 1000) =
           <<0, sel.ms[1], sel.ms[2]>>
      /\ ~sel.overflow

\* select was called with timeout_ms = 2^32 - 1
C9_Witness ==
    /\ sel.res.kind # "none"
    /\ sel.ms = <<65535, 65535>>
    /\ sel.tv_sec = 4294967
    /\ sel.tv_usec = 295000

\* C10 as stated: every call of fd_set stored its socket at the old fd_count
\* and incremented fd_count, so fd_count is the number of calls and fd_array
\* holds the sockets in call order, and fd_count is within the capacity.
C10_EveryCallStores ==
    /\ lastCall.op = "fd_set" =>
         /\ lastCall.result = "Ok"
         /\ fdSet.fd_count = lastCall.val + 1
    /\ fdSet.fd_count = Len(fdSet.calls)
    /\ fdSet.fd_count <= FdSetSize
    /\ \A i \in 1..fdSet.fd_count : fdSet.fd_array[i - 1] = fdSet.calls[i]

\* C10 amended: a call of fd_set made while fd_count is below the capacity of
\* fd_array stored its socket at the old fd_count and incremented fd_count; a
\* call made at capacity panicked at the index and left the set as it was.  So
\* fd_count is the number of calls or the capacity, whichever is smaller,
\* fd_array holds the first fd_count sockets in call order, duplicates
\* included, and fd_count never exceeds the capacity.
C10_CallsBelowCapacityStore ==
    /\ fdSet.fd_count <= FdSetSize
    /\ fdSet.fd_count = IF Len(fdSet.calls) < FdSetSize THEN Len(fdSet.calls)
                                                        ELSE FdSetSize
    /\ \A i \in 1..fdSet.fd_count : fdSet.fd_array[i - 1] = fdSet.calls[i]
    /\ lastCall.op = "fd_set" =>
         IF lastCall.val < FdSetSize
           THEN /\ lastCall.result = "Ok"
                /\ fdSet.fd_count = lastCall.val + 1
                /\ fdSet.fd_array[lastCall.val] = lastCall.arg
           ELSE /\ lastCall.result = "Panic"
                /\ fdSet.fd_count = lastCall.val

\* fd_set was called on a full set that holds a socket twice
C10_Witness ==
    /\ lastCall.op = "fd_set"
    /\ lastCall.result = "Panic"
    /\ fdSet.fd_count = FdSetSize
    /\ fdSet.fd_array[0] = fdSet.fd_array[1]
    /\ fdSet.fd_array[0] # fdSet.fd_array[2]

====
